---- MODULE Spec2Model ----
(***************************************************************************)
(* The load engine of processor.py: LoadManager with its per-customer      *)
(* cache, the duplicate rule and the three windowed velocity rules.        *)
(*                                                                         *)
(* Amounts are Python floats (IEEE-754 binary64).  A float is represented  *)
(* exactly, as a fixed-point number of four 24-bit limbs, least            *)
(* significant first, counting units of 2^-72: limb 4 is the integer part. *)
(* Every binary64 value between 2^-7 and 2^24 is such a number.            *)
(* A datetime is the record [day, sec]: the proleptic Gregorian ordinal of *)
(* its date (date.toordinal()) and the second within that day.             *)
(***************************************************************************)
EXTENDS Integers, Sequences, FiniteSets, TLC

----------------------------------------------------------------------------
(* binary64 arithmetic *)

Base == 2^24

Limbs == 1..4

Zero == <<0, 0, 0, 0>>

\* the float of an int (an int below 2^24 is exact)
FromInt(n) == <<0, 0, 0, n>>

\* 2^e units, 0 <= e < 96
Pow2(e) == [i \in Limbs |-> IF i - 1 = e \div 24 THEN 2^(e % 24) ELSE 0]

\* the exact sum of two fixed-point numbers
Add(x, y) ==
    LET s1 == x[1] + y[1]
        s2 == x[2] + y[2] + (s1 \div Base)
        s3 == x[3] + y[3] + (s2 \div Base)
        s4 == x[4] + y[4] + (s3 \div Base)
    IN  <<s1 % Base, s2 % Base, s3 % Base, s4>>

\* -1, 0 or 1 as x is below, equal to or above y
Cmp(x, y) ==
    IF \A i \in Limbs : x[i] = y[i] THEN 0
    ELSE LET k == CHOOSE i \in Limbs :
                      /\ x[i] # y[i]
                      /\ \A j \in Limbs : j > i => x[j] = y[j]
         IN  IF x[k] < y[k] THEN -1 ELSE 1

\* the number of significant bits of x
BitLen(x) ==
    IF x = Zero THEN 0
    ELSE LET k == CHOOSE i \in Limbs :
                      x[i] # 0 /\ \A j \in Limbs : j > i => x[j] = 0
             n == CHOOSE b \in 1..32 : x[k] < 2^b /\ x[k] >= 2^(b - 1)
         IN  24 * (k - 1) + n

\* x rounded to the 53 significant bits of a binary64, to nearest and ties to
\* even; sticky says that the exact value lies strictly above x (by less than
\* one unit)
Round(x, sticky) ==
    LET d == BitLen(x) - 53
    IN  IF d <= 0 THEN x
        ELSE LET k     == (d \div 24) + 1
                 o     == d % 24
                 low   == [i \in Limbs |-> IF i < k THEN x[i]
                                           ELSE IF i = k THEN x[i] % 2^o ELSE 0]
                 trunc == [i \in Limbs |-> IF i < k THEN 0
                                           ELSE IF i = k THEN x[i] - (x[i] % 2^o)
                                           ELSE x[i]]
                 odd   == (x[k] \div 2^o) % 2 = 1
                 c     == Cmp(low, Pow2(d - 1))
                 up    == c > 0 \/ (c = 0 /\ (sticky \/ odd))
             IN  IF up THEN Add(trunc, Pow2(d)) ELSE trunc

\* float + float
FAdd(x, y) == Round(Add(x, y), FALSE)

\* the float nearest to the decimal amount of `cents` hundredths, as
\* float('4999.99') and the literal 4999.99 give it
Float(cents) ==
    LET q4 == cents \div 100
        r4 == cents % 100
        q3 == (r4 * Base) \div 100
        r3 == (r4 * Base) % 100
        q2 == (r3 * Base) \div 100
        r2 == (r3 * Base) % 100
        q1 == (r2 * Base) \div 100
        r1 == (r2 * Base) % 100
    IN  Round(<<q1, q2, q3, q4>>, r1 # 0)

\* builtin sum of a list of floats: left to right, from 0.  (From CPython 3.12
\* on sum compensates the rounding errors; for lists of up to two floats, all
\* that the day window can hold before a load is accepted into it at the
\* limit, the result is the same float.)
RECURSIVE Sum(_)
Sum(s) == IF s = <<>> THEN Zero ELSE FAdd(Sum(SubSeq(s, 1, Len(s) - 1)), s[Len(s)])

----------------------------------------------------------------------------
(* datetime *)

DateTime(day, sec) == [day |-> day, sec |-> sec]

\* a <= b and a < b on datetimes
DtLeq(a, b) == a.day < b.day \/ (a.day = b.day /\ a.sec <= b.sec)

DtLt(a, b) == a.day < b.day \/ (a.day = b.day /\ a.sec < b.sec)

\* datetime.weekday(): Monday is 0; ordinal 1 (0001-01-01) is a Monday
weekday(dt) == (dt.day + 6) % 7

get_day_start_end_times(some_datetime) ==
    LET day_start == DateTime(some_datetime.day, 0)
        day_end   == DateTime(day_start.day + 1, day_start.sec)
    IN  <<day_start, day_end>>

\* the week taken to start on the day of the datetime, not on its Monday
get_week_from_same_day(some_datetime) ==
    LET week_start == DateTime(some_datetime.day, 0)
        week_end   == DateTime(week_start.day + 7, week_start.sec)
    IN  <<week_start, week_end>>

\* the week taken to start on the Sunday, not on the Monday
get_week_from_sunday(some_datetime) ==
    LET sunday     == DateTime(some_datetime.day - ((weekday(some_datetime) + 1) % 7),
                               some_datetime.sec)
        week_start == DateTime(sunday.day, 0)
        week_end   == DateTime(week_start.day + 7, week_start.sec)
    IN  <<week_start, week_end>>

get_week_start_end_times(some_datetime) ==
    LET monday     == DateTime(some_datetime.day - weekday(some_datetime),
                               some_datetime.sec)
        week_start == DateTime(monday.day, 0)
        week_end   == DateTime(week_start.day + 7, week_start.sec)
    IN  <<week_start, week_end>>

----------------------------------------------------------------------------
(* Load, LoadOutcome, LoadManager *)

MAX_LOAD_AMOUNT_PER_WEEK == 20000

MAX_LOAD_AMOUNT_PER_DAY == 5000

MAX_NUM_LOADS_PER_DAY == 3

\* None is the empty tuple and an object x the one-element tuple <<x>>
None == <<>>

Load(id, customer_id, amount, time) ==
    [id |-> id, customer_id |-> customer_id, amount |-> amount, time |-> time]

LoadOutcome(id, customer_id, accepted) ==
    [id |-> id, customer_id |-> customer_id, accepted |-> accepted]

VARIABLES
    loads_cache,    \* customer_id -> the customer's dict, in insertion order:
                    \*   a sequence of [id, val], val a <<Load>> or None
    load_outcomes,  \* process_loads: the list the comprehension builds
    returned,       \* process_loads: the list returned, None before the return
    pc,             \* process_loads: "loop" within the comprehension, then "done"
    load,           \* the load handed to _load_amount last, None before the first
    requests,       \* history: <<customer_id, id>> of every load processed
    attempts,       \* history: <<customer_id, day>> -> loads evaluated, not ignored
    calls,          \* the lists the earlier calls of process_loads returned
    twin            \* another LoadManager, once made: its loads_cache, the
                    \*   load_outcomes of its one process_loads, the loads it got

vars == <<loads_cache, load_outcomes, returned, pc, load, requests, attempts, calls, twin>>

\* reading loads_cache[customer_id] creates the customer's empty dict
Vivify(cache, customer_id) ==
    IF customer_id \in DOMAIN cache THEN cache
    ELSE [c \in DOMAIN cache \cup {customer_id} |->
             IF c = customer_id THEN <<>> ELSE cache[c]]

\* a duplicate check that overlooks the rejected markers
KeysOfAccepted(cache, customer_id) ==
    IF customer_id \in DOMAIN cache
    THEN {cache[customer_id][k].id :
             k \in {j \in DOMAIN cache[customer_id] : cache[customer_id][j].val # <<>>}}
    ELSE {}

\* a duplicate check on the ids of all customers
KeysOfAllCustomers(cache, customer_id) ==
    UNION {{cache[c][k].id : k \in DOMAIN cache[c]} : c \in DOMAIN cache}

\* the keys of a customer's dict
Keys(cache, customer_id) ==
    IF customer_id \in DOMAIN cache
    THEN {cache[customer_id][k].id : k \in DOMAIN cache[customer_id]}
    ELSE {}

\* s without its elements that are None, the others unwrapped
RECURSIVE NotNone(_)
NotNone(s) ==
    IF s = <<>> THEN <<>>
    ELSE IF Head(s) = None THEN NotNone(Tail(s))
    ELSE <<Head(s)[1]>> \o NotNone(Tail(s))

get_customer_loads_from_cache(cache, customer_id) ==
    LET customer_loads == [k \in DOMAIN Vivify(cache, customer_id)[customer_id] |->
                              Vivify(cache, customer_id)[customer_id][k].val]
    IN  NotNone(customer_loads)

\* the end of the window taken in: start_time <= l.time <= end_time
InWindowClosed(l, start_time, end_time) == DtLeq(start_time, l.time) /\ DtLeq(l.time, end_time)

InWindow(l, start_time, end_time) == DtLeq(start_time, l.time) /\ DtLt(l.time, end_time)

\* [l.amount for l in loads if start_time <= l.time < end_time]
RECURSIVE AmountsIn(_, _, _)
AmountsIn(loads, start_time, end_time) ==
    IF loads = <<>> THEN <<>>
    ELSE (IF InWindow(Head(loads), start_time, end_time)
          THEN <<Head(loads).amount>> ELSE <<>>)
         \o AmountsIn(Tail(loads), start_time, end_time)

\* the amount of the load itself left out of the comparison
meets_max_load_without_own_amount(cache, l, start_time, end_time, max_load_amount) ==
    LET loads         == get_customer_loads_from_cache(cache, l.customer_id)
        amount_so_far == Sum(AmountsIn(loads, start_time, end_time))
    IN  Cmp(amount_so_far, FromInt(max_load_amount)) <= 0

meets_max_load_criteria(cache, l, start_time, end_time, max_load_amount) ==
    LET loads         == get_customer_loads_from_cache(cache, l.customer_id)
        amount_so_far == Sum(AmountsIn(loads, start_time, end_time))
    IN  Cmp(FAdd(amount_so_far, l.amount), FromInt(max_load_amount)) <= 0

\* <= for <
meets_max_num_load_inclusive(cache, l, start_time, end_time, max_num_loads) ==
    LET loads            == get_customer_loads_from_cache(cache, l.customer_id)
        num_loads_so_far == Len(AmountsIn(loads, start_time, end_time))
    IN  num_loads_so_far <= max_num_loads

\* every entry of the customer counted, the rejected markers too
meets_max_num_load_counting_markers(cache, l, start_time, end_time, max_num_loads) ==
    Len(Vivify(cache, l.customer_id)[l.customer_id]) < max_num_loads

meets_max_num_load_criteria(cache, l, start_time, end_time, max_num_loads) ==
    LET loads            == get_customer_loads_from_cache(cache, l.customer_id)
        num_loads_so_far == Len(AmountsIn(loads, start_time, end_time))
    IN  num_loads_so_far < max_num_loads

\* the all([...]) of _load_amount
MeetsAll(cache, l) ==
    LET day  == get_day_start_end_times(l.time)
        week == get_week_start_end_times(l.time)
    IN  /\ meets_max_load_criteria(cache, l, day[1], day[2], MAX_LOAD_AMOUNT_PER_DAY)
        /\ meets_max_load_criteria(cache, l, week[1], week[2], MAX_LOAD_AMOUNT_PER_WEEK)
        /\ meets_max_num_load_criteria(cache, l, day[1], day[2], MAX_NUM_LOADS_PER_DAY)

\* the customer's dict replaced by one that holds the new entry only
StoreAlone(cache, customer_id, id, val) ==
    [cache EXCEPT ![customer_id] = <<[id |-> id, val |-> val]>>]

\* self.loads_cache[customer_id][id] = val, for an id that is no key yet
Store(cache, customer_id, id, val) ==
    [cache EXCEPT ![customer_id] = Append(@, [id |-> id, val |-> val])]

\* accepted=True in the outcome of the rejected load too
OutcomeAlwaysAccepted(cache, l) ==
    IF l.id \in Keys(cache, l.customer_id) THEN None
    ELSE <<LoadOutcome(l.id, l.customer_id, TRUE)>>

\* no outcome for a load that fails a rule
OutcomeOnlyIfAccepted(cache, l) ==
    IF l.id \in Keys(cache, l.customer_id) \/ ~MeetsAll(cache, l) THEN None
    ELSE <<LoadOutcome(l.id, l.customer_id, TRUE)>>

\* what _load_amount returns: None, or a <<LoadOutcome>>
Outcome(cache, l) ==
    IF l.id \in Keys(cache, l.customer_id) THEN None
    ELSE <<LoadOutcome(l.id, l.customer_id, MeetsAll(cache, l))>>

\* the rejected load stored like an accepted one
CacheAfterKeepingRejected(cache, l) ==
    LET viv == Vivify(cache, l.customer_id)
    IN  IF l.id \in Keys(cache, l.customer_id) THEN viv
        ELSE Store(viv, l.customer_id, l.id, <<l>>)

\* no duplicate check before the entry is written
CacheAfterOverwriting(cache, l) ==
    LET viv == Vivify(cache, l.customer_id)
        val == IF MeetsAll(cache, l) THEN <<l>> ELSE None
    IN  IF l.id \in Keys(cache, l.customer_id)
        THEN [viv EXCEPT ![l.customer_id] =
                 [k \in DOMAIN @ |-> IF @[k].id = l.id THEN [id |-> l.id, val |-> val]
                                     ELSE @[k]]]
        ELSE Store(viv, l.customer_id, l.id, val)

\* the cache _load_amount leaves
CacheAfter(cache, l) ==
    LET viv == Vivify(cache, l.customer_id)
    IN  IF l.id \in Keys(cache, l.customer_id) THEN viv
        ELSE IF MeetsAll(cache, l) THEN Store(viv, l.customer_id, l.id, <<l>>)
        ELSE Store(viv, l.customer_id, l.id, None)

Bump(f, k) ==
    [x \in DOMAIN f \cup {k} |->
        IF x = k THEN (IF k \in DOMAIN f THEN f[k] + 1 ELSE 1) ELSE f[x]]

Init ==
    /\ loads_cache = <<>>
    /\ load_outcomes = <<>>
    /\ returned = None
    /\ pc = "loop"
    /\ load = None
    /\ requests = <<>>
    /\ attempts = <<>>
    /\ calls = <<>>
    /\ twin = [made |-> FALSE, loads_cache |-> <<>>, load_outcomes |-> <<>>, loads |-> <<>>]

\* the rejected outcomes dropped with the ignored ones
RECURSIVE DropNotAccepted(_)
DropNotAccepted(outcomes) ==
    IF outcomes = <<>> THEN <<>>
    ELSE IF Head(outcomes) = None \/ ~Head(outcomes)[1].accepted
         THEN DropNotAccepted(Tail(outcomes))
    ELSE <<Head(outcomes)[1]>> \o DropNotAccepted(Tail(outcomes))

\* nothing filtered out
DropNothing(outcomes) == outcomes

\* list(filter(lambda x: x is not None, load_outcomes))
DropIgnored(outcomes) == NotNone(outcomes)

\* one element of the comprehension of process_loads: _load_amount(l)
Process(l) ==
    /\ pc = "loop"
    /\ load' = <<l>>
    /\ loads_cache' = CacheAfter(loads_cache, l)
    /\ load_outcomes' = Append(load_outcomes, Outcome(loads_cache, l))
    /\ requests' = Append(requests, <<l.customer_id, l.id>>)
    /\ attempts' = IF l.id \in Keys(loads_cache, l.customer_id) THEN attempts
                   ELSE Bump(attempts, <<l.customer_id, l.time.day>>)
    /\ UNCHANGED <<returned, pc, calls>>

\* the same in the process_loads of the other LoadManager
TwinProcess(l) ==
    /\ twin.made
    /\ twin' = [twin EXCEPT !.loads_cache = CacheAfter(@, l),
                            !.load_outcomes = Append(@, Outcome(twin.loads_cache, l)),
                            !.loads = Append(@, l)]

\* this LoadManager processes l, the other one does nothing
LoadAmount(l) == Process(l) /\ UNCHANGED twin

\* the other LoadManager processes l, this one does nothing
TwinLoadAmount(l) ==
    /\ TwinProcess(l)
    /\ UNCHANGED <<loads_cache, load_outcomes, returned, pc, load, requests, attempts, calls>>

\* both are handed l
BothLoadAmount(l) == Process(l) /\ TwinProcess(l)

\* the end of process_loads: the outcomes that are None are dropped
Return ==
    /\ pc = "loop"
    /\ returned' = <<DropIgnored(load_outcomes)>>
    /\ pc' = "done"
    /\ UNCHANGED <<loads_cache, load_outcomes, load, requests, attempts, calls, twin>>

\* a call that starts with the cache emptied
ProcessLoadsOnEmptiedCache ==
    /\ pc = "done"
    /\ calls' = Append(calls, returned[1])
    /\ load_outcomes' = <<>>
    /\ returned' = None
    /\ pc' = "loop"
    /\ loads_cache' = <<>>
    /\ UNCHANGED <<load, requests, attempts, twin>>

\* process_loads is called again on the same LoadManager
ProcessLoadsAgain ==
    /\ pc = "done"
    /\ calls' = Append(calls, returned[1])
    /\ load_outcomes' = <<>>
    /\ returned' = None
    /\ pc' = "loop"
    /\ UNCHANGED <<loads_cache, load, requests, attempts, twin>>

\* a LoadManager made with the cache the first one holds
MakeTwinSharingCache ==
    /\ ~twin.made
    /\ twin' = [made |-> TRUE, loads_cache |-> loads_cache, load_outcomes |-> <<>>,
                loads |-> <<>>]
    /\ UNCHANGED <<loads_cache, load_outcomes, returned, pc, load, requests, attempts, calls>>

\* LoadManager(): another LoadManager is made, its process_loads called
MakeTwin ==
    /\ ~twin.made
    /\ twin' = [made |-> TRUE, loads_cache |-> <<>>, load_outcomes |-> <<>>,
                loads |-> <<>>]
    /\ UNCHANGED <<loads_cache, load_outcomes, returned, pc, load, requests, attempts, calls>>

\* what a new LoadManager's process_loads returns for the loads ls
RECURSIVE RunFrom(_, _)
RunFrom(cache, ls) ==
    IF ls = <<>> THEN <<>>
    ELSE <<Outcome(cache, Head(ls))>> \o RunFrom(CacheAfter(cache, Head(ls)), Tail(ls))

process_loads(ls) == DropIgnored(RunFrom(<<>>, ls))

----------------------------------------------------------------------------
(* inputs *)

\* An id is an opaque dict key, only ever compared for equality.  AnyId lets
\* a load carry either of two ids, in any order; NextIds takes the k-th new id
\* of a customer to be 100 + k, and lets a load carry that id or one the
\* customer has used.
UsedIds(customer_id) ==
    {requests[k][2] : k \in {j \in DOMAIN requests : requests[j][1] = customer_id}}

NextIds == [c \in {600} |-> UsedIds(c) \cup {101 + Cardinality(UsedIds(c))}]

AnyId == [c \in {600, 700} |-> {101, 102}]

\* the amounts a load can carry, in hundredths
AllAmounts == {1, 2, 499997, 500000, 500001}

\* the float of each amount
FloatOf == [a \in AllAmounts |-> Float(a)]

\* One more load of the input list, or its end: the loads are those of
\* customers Cs with ids IdsOf[c], amounts As (hundredths) and times Ts, at most
\* n of them.
NextOn(Cs, IdsOf, As, Ts, n) ==
    \/ /\ Len(requests) < n
       /\ \E c \in Cs, a \in As, t \in Ts :
              \E i \in IdsOf[c] : LoadAmount(Load(i, c, FloatOf[a], t))
    \/ Return

\* 2020-08-28, a Friday, is day 737665; the Monday of its week is day 737661
Friday == DateTime(737665, 51527)

Weekdays == {DateTime(d, 51527) : d \in 737661..737665}

\* bounds: the loads of one input list, in each of the three specifications
MaxLoads == 3

MaxDayLoads == 4

MaxWeekLoads == 5

\* two customers, amounts around the daily limit, two times of one day
Next ==
    NextOn({600, 700}, AnyId, {1, 500000, 500001},
           {Friday, DateTime(737665, 50927)}, MaxLoads)

Spec == Init /\ [][Next]_vars

\* one customer, two times of one day, amounts that add up to 5000.00
NextDay ==
    NextOn({600}, NextIds, {1, 2, 499997}, {Friday, DateTime(737665, 0)}, MaxDayLoads)

SpecDay == Init /\ [][NextDay]_vars

\* one customer, loads of 5000.00 on the five working days of one week
NextWeek == NextOn({600}, NextIds, {500000}, Weekdays, MaxWeekLoads)

SpecWeek == Init /\ [][NextWeek]_vars

\* datetimes next to a midnight that ends a day (Friday to Saturday) and next
\* to one that ends a week as well (Sunday to Monday), and a Thursday
Thursday == DateTime(737664, 51527)

FridayNight == DateTime(737665, 86399)

SaturdayMidnight == DateTime(737666, 0)

SundayNight == DateTime(737667, 86399)

MondayMidnight == DateTime(737668, 0)

MaxBoundaryLoads == 5

\* one customer, loads of 5000.00 around the two midnights
NextBoundary ==
    NextOn({600}, NextIds, {500000},
           {Thursday, FridayNight, SaturdayMidnight, SundayNight, MondayMidnight},
           MaxBoundaryLoads)

SpecBoundary == Init /\ [][NextBoundary]_vars

MaxSoloLoads == 3

\* the loads of customers 600 and 700 go to one LoadManager in any order,
\* those of customer 600 go to another LoadManager as well
NextSolo ==
    \/ MakeTwin
    \/ /\ Len(requests) < MaxSoloLoads
       /\ \E a \in {1, 500000}, i \in AnyId[600] :
              BothLoadAmount(Load(i, 600, FloatOf[a], Friday))
    \/ NextOn({700}, AnyId, {1, 500000}, {Friday}, MaxSoloLoads)

SpecSolo == Init /\ [][NextSolo]_vars

MaxTwoLoads == 2

\* two LoadManagers, the second made at any time, each given loads of its own
NextTwo ==
    \/ MakeTwin
    \/ /\ Len(twin.loads) < MaxTwoLoads
       /\ \E a \in {1, 500001}, i \in AnyId[600] :
              TwinLoadAmount(Load(i, 600, FloatOf[a], Friday))
    \/ NextOn({600}, AnyId, {1, 500001}, {Friday}, MaxTwoLoads)

SpecTwo == Init /\ [][NextTwo]_vars

MaxCallLoads == 3

MaxCalls == 2

\* process_loads is called several times on one LoadManager; every load it
\* gets goes to the one process_loads call of another LoadManager as well
NextCalls ==
    \/ MakeTwin
    \/ /\ Len(requests) < MaxCallLoads
       /\ \E a \in {1, 500000}, i \in AnyId[600] :
              BothLoadAmount(Load(i, 600, FloatOf[a], Friday))
    \/ Return
    \/ /\ Len(calls) < MaxCalls
       /\ ProcessLoadsAgain

SpecCalls == Init /\ [][NextCalls]_vars

----------------------------------------------------------------------------
(* What the properties speak of.  An amount is the decimal amount the load    *)
(* was given, in hundredths; a calendar day is a day ordinal; a Monday-start  *)
(* week is a block of seven ordinals that starts on an ordinal 7k + 1.        *)

Last(s) == s[Len(s)]

\* the step processes one more load, load'[1]
IsLoadStep == Len(requests') = Len(requests) + 1

\* the pair <<customer_id, id>> has been processed before
WasSeen(customer_id, id) == \E k \in DOMAIN requests : requests[k] = <<customer_id, id>>

\* the step processes a load whose pair has / has not been processed before
IsDuplicateStep == IsLoadStep /\ WasSeen(load'[1].customer_id, load'[1].id)

IsNewStep == IsLoadStep /\ ~WasSeen(load'[1].customer_id, load'[1].id)

\* the last load processed was not ignored
LastWasNew == load # None /\ Last(load_outcomes) # None

CentsOf(amount) == CHOOSE a \in AllAmounts : FloatOf[a] = amount

SameDay(t1, t2) == t1.day = t2.day

SameWeek(t1, t2) == (t1.day - 1) \div 7 = (t2.day - 1) \div 7

\* the value the cache holds for the pair, None included
EntryOf(cache, customer_id, id) ==
    LET d == cache[customer_id]
    IN  d[CHOOSE k \in DOMAIN d : d[k].id = id].val

\* the accepted-load entries of a customer
AcceptedLoads(cache, customer_id) ==
    IF customer_id \in DOMAIN cache
    THEN {cache[customer_id][k].val[1] :
             k \in {j \in DOMAIN cache[customer_id] : cache[customer_id][j].val # None}}
    ELSE {}

RECURSIVE TotalCents(_)
TotalCents(S) ==
    IF S = {} THEN 0
    ELSE LET x == CHOOSE y \in S : TRUE IN CentsOf(x.amount) + TotalCents(S \ {x})

\* the accepted loads of the customer in the calendar day / the week of t
DayLoads(cache, customer_id, t) ==
    {x \in AcceptedLoads(cache, customer_id) : SameDay(x.time, t)}

WeekLoads(cache, customer_id, t) ==
    {x \in AcceptedLoads(cache, customer_id) : SameWeek(x.time, t)}

\* the three rules for load l, on decimal amounts
ThreeRules(cache, l) ==
    /\ TotalCents(DayLoads(cache, l.customer_id, l.time)) + CentsOf(l.amount)
           <= 100 * MAX_LOAD_AMOUNT_PER_DAY
    /\ TotalCents(WeekLoads(cache, l.customer_id, l.time)) + CentsOf(l.amount)
           <= 100 * MAX_LOAD_AMOUNT_PER_WEEK
    /\ Cardinality(DayLoads(cache, l.customer_id, l.time)) < MAX_NUM_LOADS_PER_DAY

----------------------------------------------------------------------------
\* C1: a load whose pair is not in the cache yet gets an accepted outcome and
\* an accepted-load entry if and only if the sum of the day's accepted amounts
\* plus its amount is at most 5000, the sum of the week's plus its amount is
\* at most 20000 and the day holds fewer than 3 accepted loads, all taken
\* before the load; otherwise it gets a rejected outcome and a rejected marker.
C1_AcceptedIffThreeRules ==
    [][IsNewStep =>
          LET l  == load'[1]
              ok == ThreeRules(loads_cache, l)
          IN  /\ Last(load_outcomes') = <<LoadOutcome(l.id, l.customer_id, ok)>>
              /\ EntryOf(loads_cache', l.customer_id, l.id) = IF ok THEN <<l>> ELSE None
      ]_vars

\* C2: once a pair has been processed, accepted or rejected, a later load with
\* the same pair produces no outcome, whatever its amount and time.
C2_DuplicateProducesNoOutcome ==
    [][IsDuplicateStep =>
          /\ Last(load_outcomes') = None
          /\ DropIgnored(load_outcomes') = DropIgnored(load_outcomes)
      ]_vars

\* a load was ignored whose pair had been rejected and which itself passes
\* the three rules
C2_Witness ==
    /\ load # None
    /\ Last(load_outcomes) = None
    /\ EntryOf(loads_cache, load[1].customer_id, load[1].id) = None
    /\ ThreeRules(loads_cache, load[1])
    /\ MeetsAll(loads_cache, load[1])

\* C3: processing a load whose pair is in the cache leaves the whole cache
\* as it was: no entry added, none changed.
C3_DuplicateLeavesCache == [][IsDuplicateStep => loads_cache' = loads_cache]_vars

\* a load was ignored whose pair holds an accepted load of another amount and
\* another time
C3_Witness ==
    /\ load # None
    /\ Last(load_outcomes) = None
    /\ LET e == EntryOf(loads_cache, load[1].customer_id, load[1].id)
       IN  e # None /\ e[1].amount # load[1].amount /\ e[1].time # load[1].time

\* some customer holds accepted loads in an order that is not chronological
OutOfOrder(cache) ==
    \E c \in DOMAIN cache : \E j, k \in DOMAIN cache[c] :
        /\ j < k
        /\ cache[c][j].val # None
        /\ cache[c][k].val # None
        /\ DtLt(cache[c][k].val[1].time, cache[c][j].val[1].time)

\* C4: for every customer and every Monday-start week the amounts of the
\* accepted loads with a time in that week add up to at most 20000, whatever
\* the order of the loads; so a load that would push the sum past 20000 is
\* not accepted, even when its day has room.
C4_WeekCap ==
    \A c \in DOMAIN loads_cache : \A x \in AcceptedLoads(loads_cache, c) :
        TotalCents(WeekLoads(loads_cache, c, x.time)) <= 100 * MAX_LOAD_AMOUNT_PER_WEEK

\* a load was rejected on a day with no accepted load, in a week that holds
\* 20000 accepted in an order that is not chronological
C4_Witness ==
    /\ LastWasNew
    /\ ~Last(load_outcomes)[1].accepted
    /\ DayLoads(loads_cache, load[1].customer_id, load[1].time) = {}
    /\ CentsOf(load[1].amount) <= 100 * MAX_LOAD_AMOUNT_PER_DAY
    /\ TotalCents(WeekLoads(loads_cache, load[1].customer_id, load[1].time))
           + CentsOf(load[1].amount) > 100 * MAX_LOAD_AMOUNT_PER_WEEK
    /\ OutOfOrder(loads_cache)

\* C5: for every customer and every calendar day the amounts of the accepted
\* loads with a time in that day add up to at most 5000, whatever the order
\* of the loads.
C5_DayCap ==
    \A c \in DOMAIN loads_cache : \A x \in AcceptedLoads(loads_cache, c) :
        TotalCents(DayLoads(loads_cache, c, x.time)) <= 100 * MAX_LOAD_AMOUNT_PER_DAY

\* a load of one cent was rejected on a day that holds 5000 accepted at a
\* later time of the day, and fewer than 3 loads
C5_Witness ==
    /\ LastWasNew
    /\ ~Last(load_outcomes)[1].accepted
    /\ CentsOf(load[1].amount) = 1
    /\ LET day == DayLoads(loads_cache, load[1].customer_id, load[1].time)
       IN  /\ TotalCents(day) = 100 * MAX_LOAD_AMOUNT_PER_DAY
           /\ Cardinality(day) < MAX_NUM_LOADS_PER_DAY
           /\ \E x \in day : DtLt(load[1].time, x.time)

\* the accepted loads of the day of the last load, that load left out
DayLoadsBefore ==
    DayLoads(loads_cache, load[1].customer_id, load[1].time) \ {load[1]}

\* C6: no customer holds more than 3 accepted loads in one calendar day: a
\* load that is no duplicate and comes when 3 loads of its day are accepted
\* is rejected, whatever its amount.
C6_DayCount ==
    /\ \A c \in DOMAIN loads_cache : \A x \in AcceptedLoads(loads_cache, c) :
           Cardinality(DayLoads(loads_cache, c, x.time)) <= MAX_NUM_LOADS_PER_DAY
    /\ (LastWasNew /\ Cardinality(DayLoadsBefore) >= MAX_NUM_LOADS_PER_DAY)
           => ~Last(load_outcomes)[1].accepted

\* a load of one cent was rejected on a day that holds 3 accepted loads of
\* three cents together, one of them at a later time of the day
C6_Witness ==
    /\ LastWasNew
    /\ ~Last(load_outcomes)[1].accepted
    /\ CentsOf(load[1].amount) = 1
    /\ Cardinality(DayLoadsBefore) = MAX_NUM_LOADS_PER_DAY
    /\ TotalCents(DayLoadsBefore) = 3
    /\ \E x \in DayLoadsBefore : DtLt(load[1].time, x.time)

\* the loads of the customer evaluated on the day, none ignored
Attempts(customer_id, day) ==
    IF <<customer_id, day>> \in DOMAIN attempts THEN attempts[<<customer_id, day>>] ELSE 0

\* C7, as claimed: the 4th load of a customer on a calendar day is rejected
\* whatever its amount, also when only one earlier load of the day was
\* accepted and the others rejected.
C7_FourthRequestRejected ==
    (LastWasNew /\ Attempts(load[1].customer_id, load[1].time.day) >= 4)
        => ~Last(load_outcomes)[1].accepted

\* C7, amended: the 4th load of a customer on a calendar day is rejected
\* whatever its amount when 3 loads of that day are accepted; rejected loads
\* are not counted, so with fewer than 3 accepted the count rule passes and
\* the load is accepted exactly when the two amount rules pass.
C7_FourthRejectedIfThreeAccepted ==
    [][(IsNewStep /\ Attempts(load'[1].customer_id, load'[1].time.day) >= 3) =>
          LET l     == load'[1]
              prior == Cardinality(DayLoads(loads_cache, l.customer_id, l.time))
              day   == get_day_start_end_times(l.time)
              week  == get_week_start_end_times(l.time)
          IN  IF prior >= MAX_NUM_LOADS_PER_DAY
              THEN ~Last(load_outcomes')[1].accepted
              ELSE Last(load_outcomes')[1].accepted <=>
                       /\ meets_max_load_criteria(loads_cache, l, day[1], day[2],
                                                  MAX_LOAD_AMOUNT_PER_DAY)
                       /\ meets_max_load_criteria(loads_cache, l, week[1], week[2],
                                                  MAX_LOAD_AMOUNT_PER_WEEK)
      ]_vars

\* the 4th load of the day was accepted after one accepted and two rejected
C7_Witness ==
    /\ LastWasNew
    /\ Last(load_outcomes)[1].accepted
    /\ Attempts(load[1].customer_id, load[1].time.day) = 4
    /\ Len(loads_cache[load[1].customer_id]) = 4
    /\ Cardinality(DayLoadsBefore) = 1

\* C8: the amount limits are inclusive: a load that brings the day's accepted
\* amounts to exactly 5000 is accepted when the other two rules pass, and a
\* load that brings them to 5000.01 is rejected.
C8_DayLimitInclusive ==
    [][IsNewStep =>
          LET l     == load'[1]
              total == TotalCents(DayLoads(loads_cache, l.customer_id, l.time))
                           + CentsOf(l.amount)
          IN  /\ (total = 100 * MAX_LOAD_AMOUNT_PER_DAY /\ ThreeRules(loads_cache, l))
                     => Last(load_outcomes')[1].accepted
              /\ total = 100 * MAX_LOAD_AMOUNT_PER_DAY + 1
                     => ~Last(load_outcomes')[1].accepted
      ]_vars

\* the outcome _load_amount gave the pair
OutcomeOf(customer_id, id) ==
    LET k == CHOOSE j \in DOMAIN load_outcomes :
                 /\ load_outcomes[j] # None
                 /\ load_outcomes[j][1].customer_id = customer_id
                 /\ load_outcomes[j][1].id = id
    IN  load_outcomes[k][1]

\* the cache without the entries of the pairs whose outcome was a rejection
WithoutRejected ==
    [c \in DOMAIN loads_cache |->
        SelectSeq(loads_cache[c], LAMBDA e : OutcomeOf(c, e.id).accepted)]

\* C9: the rejected loads and the ignored ones add nothing to any sum or
\* count: a load that is no duplicate is decided as it would be with only the
\* accepted loads in the cache.
C9_OnlyAcceptedCount ==
    [][IsNewStep =>
          (Last(load_outcomes')[1].accepted <=> MeetsAll(WithoutRejected, load'[1]))
      ]_vars

\* a load of 5000 was accepted on a day on which a load was rejected and
\* another ignored before it
C9_Witness ==
    /\ LastWasNew
    /\ Last(load_outcomes)[1].accepted
    /\ CentsOf(load[1].amount) = 100 * MAX_LOAD_AMOUNT_PER_DAY
    /\ Attempts(load[1].customer_id, load[1].time.day) = 2
    /\ loads_cache[load[1].customer_id][1].val = None
    /\ \E k \in DOMAIN load_outcomes : load_outcomes[k] = None

\* s without the elements that occur earlier in it
RECURSIVE FirstOccurrences(_)
FirstOccurrences(s) ==
    IF s = <<>> THEN <<>>
    ELSE LET front == SubSeq(s, 1, Len(s) - 1)
         IN  IF \E k \in DOMAIN front : front[k] = Last(s)
             THEN FirstOccurrences(front)
             ELSE Append(FirstOccurrences(front), Last(s))

\* C10: what process_loads returns is its input without the ignored loads, in
\* the same order: the k-th outcome carries the id and the customer_id of the
\* k-th load that was not ignored.
C10_OutputOrder ==
    pc = "done" =>
        [k \in DOMAIN returned[1] |-> <<returned[1][k].customer_id, returned[1][k].id>>]
            = FirstOccurrences(requests)

\* two outcomes were returned for three loads, the second load ignored, the
\* ids not in increasing order, the first outcome a rejection
C10_Witness ==
    /\ pc = "done"
    /\ Len(requests) = 3
    /\ load_outcomes[2] = None
    /\ Len(returned[1]) = 2
    /\ returned[1][1].id > returned[1][2].id
    /\ ~returned[1][1].accepted

----------------------------------------------------------------------------
\* the pair of the k-th load occurs earlier in the input
IsRepeat(k) == \E j \in 1..(k - 1) : requests[j] = requests[k]

\* C11: every load gets None (it is ignored) or one LoadOutcome, accepted or
\* not, for its own pair; it gets the LoadOutcome exactly when its pair did
\* not occur earlier in the input. So process_loads returns as many outcomes
\* as the input has distinct pairs, and fewer outcomes than loads exactly
\* when a pair is repeated.
C11_OneOutcomePerPair ==
    /\ Len(load_outcomes) = Len(requests)
    /\ \A k \in DOMAIN load_outcomes :
           /\ \/ load_outcomes[k] = None
              \/ /\ Len(load_outcomes[k]) = 1
                 /\ load_outcomes[k][1].accepted \in BOOLEAN
                 /\ <<load_outcomes[k][1].customer_id, load_outcomes[k][1].id>> = requests[k]
           /\ load_outcomes[k] # None <=> ~IsRepeat(k)
    /\ pc = "done" =>
           /\ Len(returned[1]) = Cardinality({requests[k] : k \in DOMAIN requests})
           /\ Len(returned[1]) < Len(requests) <=> \E k \in DOMAIN requests : IsRepeat(k)

\* three loads were processed, the third repeats the pair of the first, which
\* was rejected; two outcomes were returned, a rejection and an acceptance
C11_Witness ==
    /\ pc = "done"
    /\ Len(requests) = 3
    /\ requests[3] = requests[1]
    /\ requests[2] # requests[1]
    /\ Len(returned[1]) = 2
    /\ ~returned[1][1].accepted
    /\ returned[1][2].accepted

----------------------------------------------------------------------------
\* the amounts of the customer's accepted loads whose time satisfies InPeriod,
\* in the order of the cache
AmountsWhere(cache, customer_id, InPeriod(_)) ==
    IF customer_id \in DOMAIN cache
    THEN LET kept == SelectSeq(cache[customer_id],
                               LAMBDA e : e.val # None /\ InPeriod(e.val[1].time))
         IN  [k \in DOMAIN kept |-> kept[k].val[1].amount]
    ELSE <<>>

\* amounts, summed as the code sums them, plus amount stay within limit
Within(amounts, amount, limit) == Cmp(FAdd(Sum(amounts), amount), FromInt(limit)) <= 0

\* C12: the windows are half-open. A load that is no duplicate is decided on
\* the accepted loads of its own calendar day and of its own Monday-start
\* week: an accepted load at 00:00:00 belongs to the day, and on a Monday to
\* the week, that starts then, and to neither the day nor the week before.
C12_HalfOpenWindows ==
    [][IsNewStep =>
          LET l    == load'[1]
              day  == AmountsWhere(loads_cache, l.customer_id, LAMBDA t : SameDay(t, l.time))
              week == AmountsWhere(loads_cache, l.customer_id, LAMBDA t : SameWeek(t, l.time))
          IN  Last(load_outcomes')[1].accepted <=>
                  /\ Within(day, l.amount, MAX_LOAD_AMOUNT_PER_DAY)
                  /\ Within(week, l.amount, MAX_LOAD_AMOUNT_PER_WEEK)
                  /\ Len(day) < MAX_NUM_LOADS_PER_DAY
      ]_vars

\* the time of an accepted load of customer 600
HasAccepted(t) == \E x \in AcceptedLoads(loads_cache, 600) : x.time = t

\* 5000 was accepted at Monday 00:00:00 although the week that ends then holds
\* 20000 and its last day 5000, and 5000 was accepted at Saturday 00:00:00
\* and at Friday 23:59:59
C12_Witness ==
    /\ LastWasNew
    /\ Last(load_outcomes)[1].accepted
    /\ load[1].time = MondayMidnight
    /\ HasAccepted(SundayNight)
    /\ HasAccepted(SaturdayMidnight)
    /\ HasAccepted(FridayNight)
    /\ HasAccepted(Thursday)

----------------------------------------------------------------------------
\* C13: for the time t of the load just processed, the week window starts at
\* 00:00:00 of the Monday on or before t and ends 7 days later, the day
\* window starts at 00:00:00 of the day of t and ends 24 hours later, both
\* hold t, the day window lies in the week window, and no accepted load of
\* another Monday-start week is in the week window.
C13_Windows ==
    load # None =>
        LET t    == load[1].time
            day  == get_day_start_end_times(t)
            week == get_week_start_end_times(t)
        IN  /\ week[1].sec = 0
            /\ week[1].day % 7 = 1
            /\ week[1].day <= t.day
            /\ t.day < week[1].day + 7
            /\ week[2] = [day |-> week[1].day + 7, sec |-> 0]
            /\ day[1] = [day |-> t.day, sec |-> 0]
            /\ day[2] = [day |-> t.day + 1, sec |-> 0]
            /\ DtLeq(week[1], t) /\ DtLt(t, week[2])
            /\ DtLeq(day[1], t) /\ DtLt(t, day[2])
            /\ DtLeq(week[1], day[1]) /\ DtLeq(day[2], week[2])
            /\ \A x \in AcceptedLoads(loads_cache, load[1].customer_id) :
                   InWindow(x, week[1], week[2]) <=> SameWeek(x.time, t)

\* 5000 was accepted on the Thursday as the fourth 5000 of its week, the
\* Friday, Saturday and Sunday holding one each, while the Monday after
\* holds an accepted 5000 too
C13_Witness ==
    /\ LastWasNew
    /\ Last(load_outcomes)[1].accepted
    /\ load[1].time = Thursday
    /\ HasAccepted(FridayNight)
    /\ HasAccepted(SaturdayMidnight)
    /\ HasAccepted(SundayNight)
    /\ HasAccepted(MondayMidnight)

----------------------------------------------------------------------------
\* what _load_amount gave the first n loads that are of the customer, in order
RECURSIVE OutcomesUpTo(_, _)
OutcomesUpTo(customer_id, n) ==
    IF n = 0 THEN <<>>
    ELSE IF requests[n][1] = customer_id
         THEN Append(OutcomesUpTo(customer_id, n - 1), load_outcomes[n])
         ELSE OutcomesUpTo(customer_id, n - 1)

\* C14: the customers are independent. What the loads of customer 600 get
\* among the loads of customer 700, in any order, is what they get from a
\* LoadManager that is given the loads of customer 600 alone, and the history
\* kept for customer 600 is the same in both.
C14_CustomersIndependent ==
    twin.made =>
        /\ OutcomesUpTo(600, Len(requests)) = twin.load_outcomes
        /\ Keys(loads_cache, 600) = Keys(twin.loads_cache, 600)
        /\ 600 \in DOMAIN loads_cache => loads_cache[600] = twin.loads_cache[600]
        /\ pc = "done" =>
               SelectSeq(returned[1], LAMBDA o : o.customer_id = 600)
                   = process_loads(twin.loads)

\* customer 700 had 5000 accepted under id 101, then customer 600 had 5000
\* accepted under id 101 on the same day, then a third load of customer 600
\* was processed
C14_Witness ==
    /\ twin.made
    /\ Len(requests) = 3
    /\ requests[1] = <<700, 101>>
    /\ requests[2] = <<600, 101>>
    /\ requests[3][1] = 600
    /\ load_outcomes[1] # None /\ load_outcomes[1][1].accepted
    /\ load_outcomes[2] # None /\ load_outcomes[2][1].accepted
    /\ EntryOf(loads_cache, 700, 101)[1].amount = FloatOf[500000]
    /\ EntryOf(loads_cache, 600, 101)[1].amount = FloatOf[500000]
    /\ Len(twin.load_outcomes) = 2

----------------------------------------------------------------------------
----------------------------------------------------------------------------
\* the entries a customer has in the cache, none if the customer has no dict
EntriesOf(cache, customer_id) ==
    IF customer_id \in DOMAIN cache THEN cache[customer_id] ELSE <<>>

\* C16: the cache only grows. A step that processes a load leaves the
\* customer of the load with a dict and gives no other customer one; if the
\* load is no duplicate the step appends one entry, the only one under the
\* id of the load, and if it is a duplicate it adds none. No step removes or
\* changes an entry, and a step that processes no load leaves the cache as
\* it is.
C16_CacheGrows ==
    [][/\ \A c \in DOMAIN loads_cache :
              /\ c \in DOMAIN loads_cache'
              /\ Len(loads_cache[c]) <= Len(loads_cache'[c])
              /\ SubSeq(loads_cache'[c], 1, Len(loads_cache[c])) = loads_cache[c]
       /\ IsLoadStep =>
              LET l == load'[1]
                  d == loads_cache'[l.customer_id]
              IN  /\ DOMAIN loads_cache' = DOMAIN loads_cache \cup {l.customer_id}
                  /\ \A c \in DOMAIN loads_cache \ {l.customer_id} :
                         loads_cache'[c] = loads_cache[c]
                  /\ Cardinality({k \in DOMAIN d : d[k].id = l.id}) = 1
                  /\ Len(d) = Len(EntriesOf(loads_cache, l.customer_id))
                                  + (IF IsNewStep THEN 1 ELSE 0)
                  /\ IsNewStep => Last(d).id = l.id
       /\ ~IsLoadStep => loads_cache' = loads_cache
      ]_vars

\* a customer got a dict with its first load when the other customer had two
\* entries already, a rejected marker the first of them
C16_Witness ==
    /\ LastWasNew
    /\ Len(requests) = 3
    /\ requests[1][1] = requests[2][1]
    /\ requests[3][1] # requests[1][1]
    /\ Len(loads_cache[requests[1][1]]) = 2
    /\ loads_cache[requests[1][1]][1].val = None
    /\ loads_cache[requests[1][1]][2].val # None
    /\ Len(loads_cache[requests[3][1]]) = 1

----------------------------------------------------------------------------
\* the cache a new LoadManager holds after the loads ls
RECURSIVE CacheFrom(_, _)
CacheFrom(cache, ls) ==
    IF ls = <<>> THEN cache ELSE CacheFrom(CacheAfter(cache, Head(ls)), Tail(ls))

\* C17: a LoadManager starts with an empty cache of its own. Whatever another
\* LoadManager has processed before it was made or processes meanwhile, its
\* outcomes and its cache are those that its own loads give from an empty
\* cache, so two new LoadManagers given the same loads give the same
\* outcomes; and a step of one LoadManager changes nothing in the other.
C17_InstancesIndependent ==
    /\ [](twin.made =>
              /\ twin.load_outcomes = RunFrom(<<>>, twin.loads)
              /\ twin.loads_cache = CacheFrom(<<>>, twin.loads))
    /\ [][/\ (~twin.made /\ twin'.made) => twin'.loads_cache = <<>>
          /\ twin' # twin => UNCHANGED <<loads_cache, load_outcomes, returned>>
          /\ IsLoadStep => twin' = twin
         ]_vars

\* the first LoadManager had accepted the pair of the load before the second
\* LoadManager was made; the second was given the same pair twice, accepted
\* it and then ignored it
C17_Witness ==
    /\ twin.made
    /\ Len(twin.loads) = 2
    /\ twin.loads[1].id = twin.loads[2].id
    /\ twin.loads[1].customer_id = twin.loads[2].customer_id
    /\ WasSeen(twin.loads[1].customer_id, twin.loads[1].id)
    /\ EntryOf(loads_cache, twin.loads[1].customer_id, twin.loads[1].id) # None
    /\ twin.load_outcomes[1] # None
    /\ twin.load_outcomes[1][1].accepted
    /\ twin.load_outcomes[2] = None

----------------------------------------------------------------------------
\* the lists of a sequence of lists, one after the other
RECURSIVE Flatten(_)
Flatten(lists) == IF lists = <<>> THEN <<>> ELSE Head(lists) \o Flatten(Tail(lists))

\* what the call of process_loads under way returns or would return now
ThisCall == IF pc = "done" THEN returned[1] ELSE DropIgnored(load_outcomes)

\* C18: the cache outlives the call. The lists that the calls of
\* process_loads on one LoadManager return, one after the other, are the
\* list that one call on a new LoadManager returns for all their loads in
\* the same order, and the two LoadManagers end with the same cache.
C18_CallsConcatenate ==
    /\ Flatten(calls) \o ThisCall = process_loads(twin.loads)
    /\ loads_cache = CacheFrom(<<>>, twin.loads)
    /\ loads_cache = twin.loads_cache

\* a first call returned one accepted outcome; the second call was given the
\* same pair again and another load, and returned one rejection
C18_Witness ==
    /\ pc = "done"
    /\ Len(calls) = 1
    /\ Len(calls[1]) = 1
    /\ calls[1][1].accepted
    /\ Len(load_outcomes) = 2
    /\ \E k \in DOMAIN load_outcomes : load_outcomes[k] = None
    /\ Len(returned[1]) = 1
    /\ ~returned[1][1].accepted

----------------------------------------------------------------------------
\* the cache has an entry under the pair
HasEntry(cache, customer_id, id) ==
    \E k \in DOMAIN EntriesOf(cache, customer_id) : EntriesOf(cache, customer_id)[k].id = id

\* an outcome of the pair is among the outcomes emitted
HasOutcome(customer_id, id) ==
    \E k \in DOMAIN load_outcomes :
        /\ load_outcomes[k] # None
        /\ load_outcomes[k][1].customer_id = customer_id
        /\ load_outcomes[k][1].id = id

\* the pairs of the loads processed, of the cache and of the outcomes
PairsAround ==
    {requests[k] : k \in DOMAIN requests}
        \cup UNION {{<<c, loads_cache[c][k].id>> : k \in DOMAIN loads_cache[c]} :
                       c \in DOMAIN loads_cache}
        \cup {<<load_outcomes[k][1].customer_id, load_outcomes[k][1].id>> :
                  k \in {j \in DOMAIN load_outcomes : load_outcomes[j] # None}}

\* C19: the cache and the outcomes agree. The cache has an entry under a
\* pair exactly when an outcome of the pair was emitted; the entry is a load,
\* of that pair, exactly when the outcome has accepted true, and the rejected
\* marker exactly when it has accepted false. The load in the entry is the
\* first load that came with the pair, amount and time: it is stored when
\* that load is accepted and a later load with the pair does not change it.
C19_CacheAgreesWithOutcomes ==
    /\ [](\A p \in PairsAround :
              /\ HasEntry(loads_cache, p[1], p[2]) <=> HasOutcome(p[1], p[2])
              /\ HasEntry(loads_cache, p[1], p[2]) =>
                     LET entry == EntryOf(loads_cache, p[1], p[2])
                     IN  /\ entry # None <=> OutcomeOf(p[1], p[2]).accepted
                         /\ entry = None <=> ~OutcomeOf(p[1], p[2]).accepted
                         /\ entry # None =>
                                <<entry[1].customer_id, entry[1].id>> = p)
    /\ [][/\ (IsNewStep /\ Last(load_outcomes')[1].accepted) =>
                 EntryOf(loads_cache', load'[1].customer_id, load'[1].id) = load'
          /\ IsDuplicateStep =>
                 EntryOf(loads_cache', load'[1].customer_id, load'[1].id)
                     = EntryOf(loads_cache, load'[1].customer_id, load'[1].id)
         ]_vars

\* a pair was accepted, another load was rejected, and the first pair came
\* again with another amount: its entry still holds the first amount
C19_Witness ==
    /\ Len(requests) = 3
    /\ requests[3] = requests[1]
    /\ load_outcomes[1] # None /\ load_outcomes[1][1].accepted
    /\ load_outcomes[2] # None /\ ~load_outcomes[2][1].accepted
    /\ EntryOf(loads_cache, requests[2][1], requests[2][2]) = None
    /\ EntryOf(loads_cache, requests[1][1], requests[1][2]) # None
    /\ EntryOf(loads_cache, requests[1][1], requests[1][2])[1].amount # load[1].amount

====
